---------------------------- MODULE Spec2Model ----------------------------
(***************************************************************************)
(* Component Librarian: the validation layer (controller.py) over the      *)
(* persistence gateway (database.py) and its single SQLite table.          *)
(*                                                                         *)
(* Text is modelled as a sequence of one-character strings, so that        *)
(* str.strip() and int(str) are computed character by character.  A Python *)
(* int is modelled by its sign and its decimal digits, so that magnitudes  *)
(* beyond SQLite's signed 64-bit INTEGER are represented exactly.          *)
(***************************************************************************)
EXTENDS Integers, Sequences, FiniteSets, TLC

VARIABLES
    store,      \* rows of table components (a set of records)
    seq,        \* sqlite_sequence entry of the table: largest rowid ever used
    clock,      \* index in Dates of the current day (datetime.now())
    call,       \* the last step: a controller call and its arguments, or a tick
    result,     \* what the last controller call returned or raised
    gateway,    \* the statement the last call handed to execute_query
    before,     \* history: the database as the last call found it
    issued,     \* history: the component_ids assigned, in order
    given,      \* history: for every row, the arguments it was created with
    inserted,   \* history: every row as it was when it was inserted
    previous    \* history: what the call before returned, when the last two
                \* calls both read the whole table

vars == <<store, seq, clock, call, result, gateway, before, issued, given,
          inserted, previous>>

----------------------------------------------------------------------------
(* Bounds of the model *)

\* at most this many rows are ever inserted
MaxAdds == 2

----------------------------------------------------------------------------
(* Text *)

Whitespace == {" ", "\t"}

\* index of the first non-whitespace character at or after i (Len(s)+1 if none)
RECURSIVE SkipLeft(_, _)
SkipLeft(s, i) ==
    IF i > Len(s) THEN i
    ELSE IF s[i] \in Whitespace THEN SkipLeft(s, i + 1) ELSE i

\* index of the last non-whitespace character at or before j (0 if none)
RECURSIVE SkipRight(_, _)
SkipRight(s, j) ==
    IF j < 1 THEN j
    ELSE IF s[j] \in Whitespace THEN SkipRight(s, j - 1) ELSE j

\* a strip() that forgets the trailing side (str.lstrip)
lstrip(s) == SubSeq(s, SkipLeft(s, 1), Len(s))

\* str.strip(): leading and trailing whitespace removed
strip(s) ==
    LET i == SkipLeft(s, 1)
        j == SkipRight(s, Len(s))
    IN  IF i > j THEN <<>> ELSE SubSeq(s, i, j)

\* Python truthiness of a str: non-empty
truthy(s) == s # <<>>

----------------------------------------------------------------------------
(* Dates *)

\* the days datetime.now() passes through: a year's end, so that every part
\* of the formatted date changes
Dates == << [y |-> 2026, m |-> 12, d |-> 31], [y |-> 2027, m |-> 1, d |-> 1] >>

DigitChar == [n \in 0..9 |->
    CASE n = 0 -> "0" [] n = 1 -> "1" [] n = 2 -> "2" [] n = 3 -> "3"
      [] n = 4 -> "4" [] n = 5 -> "5" [] n = 6 -> "6" [] n = 7 -> "7"
      [] n = 8 -> "8" [] n = 9 -> "9"]

\* n in decimal, zero-padded to w characters (%Y, %m, %d)
RECURSIVE Pad(_, _)
Pad(n, w) == IF w = 0 THEN <<>> ELSE Append(Pad(n \div 10, w - 1), DigitChar[n % 10])

\* datetime.strftime("%Y-%m-%d")
strftime(dt) == Pad(dt.y, 4) \o <<"-">> \o Pad(dt.m, 2) \o <<"-">> \o Pad(dt.d, 2)

now == Dates[clock]

----------------------------------------------------------------------------
(* Python int and int(str) *)

\* a Python int: sign and decimal digits of the magnitude, most significant
\* first, no leading zero (zero is <<0>>, never negative)
PyInt(neg, mag) == [neg |-> neg /\ mag # <<0>>, mag |-> mag]

Digits == {"0", "1", "2", "3", "4", "5", "6", "7", "8", "9"}

DigitVal(c) == CHOOSE n \in 0..9 : DigitChar[n] = c

\* whether s is the body of an int literal: digits separated by single
\* underscores; prev is the kind of the preceding character
RECURSIVE IsLiteral(_, _)
IsLiteral(s, prev) ==
    IF s = <<>> THEN prev = "digit"
    ELSE IF Head(s) \in Digits THEN IsLiteral(Tail(s), "digit")
    ELSE IF Head(s) = "_" /\ prev = "digit" THEN IsLiteral(Tail(s), "under")
    ELSE FALSE

\* the digits of a literal's body
RECURSIVE LiteralDigits(_)
LiteralDigits(s) ==
    IF s = <<>> THEN <<>>
    ELSE IF Head(s) = "_" THEN LiteralDigits(Tail(s))
    ELSE <<DigitVal(Head(s))>> \o LiteralDigits(Tail(s))

RECURSIVE DropZeros(_)
DropZeros(d) == IF Len(d) > 1 /\ Head(d) = 0 THEN DropZeros(Tail(d)) ELSE d

\* int(text): [ok |-> FALSE] stands for ValueError
int(text) ==
    LET s      == strip(text)
        signed == s # <<>> /\ Head(s) \in {"+", "-"}
        body   == IF signed THEN Tail(s) ELSE s
    IN  IF ~IsLiteral(body, "start")
        THEN [ok |-> FALSE, val |-> PyInt(FALSE, <<0>>)]
        ELSE [ok |-> TRUE,
              val |-> PyInt(signed /\ Head(s) = "-", DropZeros(LiteralDigits(body)))]

\* the numeric value of a digit sequence short enough to compute with
RECURSIVE MagValue(_)
MagValue(d) == IF d = <<>> THEN 0 ELSE 10 * MagValue(SubSeq(d, 1, Len(d) - 1)) + d[Len(d)]

\* a small int as a Python int
RECURSIVE MagOf(_)
MagOf(n) == IF n < 10 THEN <<n>> ELSE Append(MagOf(n \div 10), n % 10)

IntOf(n) == IF n < 0 THEN PyInt(TRUE, MagOf(0 - n)) ELSE PyInt(FALSE, MagOf(n))

----------------------------------------------------------------------------
(* SQLite values *)

\* 2^63 - 1 and 2^63: the bounds of SQLite's INTEGER
Int64MaxMag == <<9,2,2,3,3,7,2,0,3,6,8,5,4,7,7,5,8,0,7>>
Int64MinMag == <<9,2,2,3,3,7,2,0,3,6,8,5,4,7,7,5,8,0,8>>

\* a <= b for digit sequences of equal length
RECURSIVE LexLE(_, _)
LexLE(a, b) ==
    IF a = <<>> THEN TRUE
    ELSE IF Head(a) # Head(b) THEN Head(a) < Head(b)
    ELSE LexLE(Tail(a), Tail(b))

MagLE(a, b) == Len(a) < Len(b) \/ (Len(a) = Len(b) /\ LexLE(a, b))


\* whether the sqlite3 module can bind the Python int n as an INTEGER;
\* otherwise cursor.execute raises OverflowError, which is no sqlite3.Error
FitsInt64(n) == IF n.neg THEN MagLE(n.mag, Int64MinMag) ELSE MagLE(n.mag, Int64MaxMag)

\* whether INTEGER column value id equals the bound int n
SameRowid(id, n) == Len(n.mag) <= 9 /\ id = (IF n.neg THEN 0 - MagValue(n.mag) ELSE MagValue(n.mag))

----------------------------------------------------------------------------
(* The table components and the statements run against it.  A database is  *)
(* [rows, seq]: the table's rows and its sqlite_sequence entry.            *)

MaxOf(S) == IF S = {} THEN 0 ELSE CHOOSE x \in S : \A y \in S : y <= x

Rowids(rows) == {r.component_id : r \in rows}

\* INTEGER PRIMARY KEY without AUTOINCREMENT: one more than the largest rowid
\* now in the table
NextRowidOfTable(db) == MaxOf(Rowids(db.rows)) + 1

\* INTEGER PRIMARY KEY AUTOINCREMENT: one more than the largest rowid that was
\* ever in the table
NextRowid(db) == MaxOf(Rowids(db.rows) \cup {db.seq}) + 1

\* INSERT INTO components (name, ..., date_added) VALUES (?, ?, ?, ?, ?, ?, ?, ?)
\* A str bound to a TEXT column is stored as it is; date_added has NUMERIC
\* affinity, which keeps a text that is no numeric literal, as every
\* YYYY-MM-DD is.
InsertRow(db, p) ==
    LET id == NextRowid(db)
    IN  [rows |-> db.rows \cup
                  {[component_id     |-> id,
                    name             |-> p[1],
                    pattern_name     |-> p[2],
                    pattern_category |-> p[3],
                    language         |-> p[4],
                    description      |-> p[5],
                    code_snippet     |-> p[6],
                    author           |-> p[7],
                    date_added       |-> p[8]]},
         seq  |-> id]

\* DROP TABLE IF EXISTS components followed by CREATE TABLE components (...)
CreateTable_fresh(db) == [rows |-> {}, seq |-> 0]

\* CREATE TABLE IF NOT EXISTS components (...): the table exists since the
\* first construction, and the statement leaves an existing table as it is
CreateTable(db) == db

\* DELETE FROM components, the WHERE clause forgotten
DeleteRow_all(db, p) == [rows |-> {}, seq |-> db.seq]

\* DELETE FROM components WHERE component_id = ?
DeleteRow(db, p) ==
    [rows |-> {r \in db.rows : ~SameRowid(r.component_id, p[1])}, seq |-> db.seq]

\* the rows as a sequence in rowid order, each a record keyed by column name
\* a set of integers as an ascending sequence
RECURSIVE Ascending(_)
Ascending(S) == IF S = {} THEN <<>> ELSE Append(Ascending(S \ {MaxOf(S)}), MaxOf(S))

RECURSIVE RowList(_)
RowList(rows) ==
    IF rows = {} THEN <<>>
    ELSE LET last == CHOOSE r \in rows : \A q \in rows : q.component_id <= r.component_id
         IN  Append(RowList(rows \ {last}), last)

UpperLetters == << "A", "B", "C", "D", "E", "F", "G", "H", "I", "J", "K", "L", "M",
                   "N", "O", "P", "Q", "R", "S", "T", "U", "V", "W", "X", "Y", "Z" >>
LowerLetters == << "a", "b", "c", "d", "e", "f", "g", "h", "i", "j", "k", "l", "m",
                   "n", "o", "p", "q", "r", "s", "t", "u", "v", "w", "x", "y", "z" >>

\* LIKE folds the case of the ASCII letters, and of no other character
Lower(c) ==
    IF \E i \in 1..Len(UpperLetters) : UpperLetters[i] = c
    THEN LowerLetters[CHOOSE i \in 1..Len(UpperLetters) : UpperLetters[i] = c]
    ELSE c

\* text LIKE pattern: % matches any run of characters, _ any one character
RECURSIVE Like(_, _)
Like(text, pattern) ==
    IF pattern = <<>> THEN text = <<>>
    ELSE IF Head(pattern) = "%"
         THEN Like(text, Tail(pattern)) \/ (text # <<>> /\ Like(Tail(text), pattern))
    ELSE IF text = <<>> THEN FALSE
    ELSE IF Head(pattern) = "_" THEN Like(Tail(text), Tail(pattern))
    ELSE Lower(Head(text)) = Lower(Head(pattern)) /\ Like(Tail(text), Tail(pattern))

\* a WHERE clause whose base predicate selects no row: without a keyword
\* nothing matches
Where_no_base(r, p) ==
    /\ truthy(p[1])
    /\ LET kw == <<"%">> \o p[1] \o <<"%">>
       IN  Like(r.name, kw) \/ Like(r.description, kw)
    /\ truthy(p[2]) => r.pattern_name = p[2]
    /\ truthy(p[3]) => r.language = p[3]

\* the WHERE clause search_components builds, on row r: p holds the filters
\* (keyword, pattern_filter, language_filter), an empty one adds no predicate
Where(r, p) ==
    /\ truthy(p[1]) =>
          LET kw == <<"%">> \o p[1] \o <<"%">>
          IN  Like(r.name, kw) \/ Like(r.description, kw)
    /\ truthy(p[2]) => r.pattern_name = p[2]
    /\ truthy(p[3]) => r.language = p[3]

\* SELECT * FROM components WHERE 1=1 [AND ...]
Select(db, p) == RowList({r \in db.rows : Where(r, p)})

\* SELECT * FROM components
SelectAll(db) == RowList(db.rows)

\* where a call of execute_query may meet an sqlite3.Error
Faults == {"none", "connect", "execute", "commit"}

\* the faults a call with statement sql can meet: the read path never commits
FaultsOf(sql) == IF sql \in {"SELECT", "SELECT_ALL"} THEN Faults \ {"commit"} ELSE Faults

\* the Python ints among the parameters of a statement
IntParams(sql, params) == IF sql = "DELETE" THEN {params[1]} ELSE {}

\* execute_query(sql_query, params, is_select) on database db under fault:
\* exc is the exception that leaves the call ("none": it returns), ret the
\* boolean of write mode, rows the list of read mode, db the database after,
\* conn the connection when the call is left: "none" when sqlite3.connect
\* failed, else "open", since leaving the with block commits or rolls back
\* and closes nothing
execute_query(sql, params, is_select, fault, db) ==
    LET sentinel == [exc |-> "none", ret |-> FALSE, rows |-> <<>>, db |-> db, conn |-> "open"]
    IN  IF fault = "connect" THEN [sentinel EXCEPT !.conn = "none"]
        ELSE IF \E n \in IntParams(sql, params) : ~FitsInt64(n)
             THEN [exc |-> "OverflowError", ret |-> FALSE, rows |-> <<>>, db |-> db, conn |-> "open"]
        ELSE IF fault = "execute" THEN sentinel
        ELSE IF is_select
             THEN [exc |-> "none", ret |-> TRUE, db |-> db, conn |-> "open",
                   rows |-> IF sql = "SELECT_ALL" THEN SelectAll(db) ELSE Select(db, params)]
        ELSE IF fault = "commit" THEN sentinel
        ELSE [exc |-> "none", ret |-> TRUE, rows |-> <<>>, conn |-> "open",
              db  |-> CASE sql = "INSERT" -> InsertRow(db, params)
                        [] sql = "DELETE" -> DeleteRow(db, params)
                        [] sql = "CREATE" -> CreateTable(db)
                        [] OTHER          -> db]

\* an insert_component that stamps the day the gateway was constructed
insert_component_stale(name, pattern_name, pattern_category, language, description, code_snippet, author, fault, db) ==
    execute_query("INSERT",
                  <<name, pattern_name, pattern_category, language,
                    description, code_snippet, author, strftime(Dates[1])>>,
                  FALSE, fault, db)

\* DatabaseManager.insert_component
insert_component(name, pattern_name, pattern_category, language, description, code_snippet, author, fault, db) ==
    LET date_now == strftime(now)
    IN  execute_query("INSERT",
                      <<name, pattern_name, pattern_category, language,
                        description, code_snippet, author, date_now>>,
                      FALSE, fault, db)

\* DatabaseManager.create_table
create_table(fault, db) ==
    execute_query("CREATE", <<>>, FALSE, fault, db)

\* DatabaseManager.delete_component
db_delete_component(component_id, fault, db) ==
    execute_query("DELETE", <<component_id>>, FALSE, fault, db)

\* DatabaseManager.search_components
db_search_components(keyword, pattern_filter, language_filter, fault, db) ==
    execute_query("SELECT", <<keyword, pattern_filter, language_filter>>, TRUE, fault, db)

\* DatabaseManager.get_all_components
db_get_all_components(fault, db) ==
    execute_query("SELECT_ALL", <<>>, TRUE, fault, db)

----------------------------------------------------------------------------
(* Validation and orchestration (controller.py).  Each operation is first  *)
(* given as an operator from the arguments, the fault met and the database *)
(* to its outcome: what the call returned or raised, the database after,   *)
(* and the statement it handed to the gateway with what the gateway did.   *)

Constructed        == [kind |-> "none", ok |-> FALSE, msg |-> "", rows |-> <<>>]
Returned(ok, msg)  == [kind |-> "pair", ok |-> ok, msg |-> msg, rows |-> <<>>]
Raised(exc)        == [kind |-> "raise", ok |-> FALSE, msg |-> exc, rows |-> <<>>]
ReturnedRows(rows) == [kind |-> "rows", ok |-> TRUE, msg |-> "", rows |-> rows]

\* what a gateway call g did: "True" or "False" it returned (in read mode:
\* rows or the empty sentinel), or the exception that left it, and the
\* connection as it left it
Did(sql, g) ==
    << [sql  |-> sql,
        ret  |-> IF g.exc # "none" THEN g.exc ELSE IF g.ret THEN "True" ELSE "False",
        conn |-> g.conn] >>

Outcome(res, d, stmts) == [result |-> res, db |-> d, gateway |-> stmts]

\* a validation whose name check forgets whitespace-only names
validation_name_unstripped(name, pattern_name, language, code_snippet) ==
    IF ~truthy(name) THEN "Component name is required."
    ELSE IF ~truthy(code_snippet) \/ ~truthy(strip(code_snippet)) THEN "Code snippet is required."
    ELSE IF ~truthy(pattern_name) THEN "Pattern type is required."
    ELSE IF ~truthy(language) THEN "Programming language is required."
    ELSE ""

\* a validation whose code check forgets whitespace-only snippets
validation_code_unstripped(name, pattern_name, language, code_snippet) ==
    IF ~truthy(name) \/ ~truthy(strip(name)) THEN "Component name is required."
    ELSE IF ~truthy(code_snippet) THEN "Code snippet is required."
    ELSE IF ~truthy(pattern_name) THEN "Pattern type is required."
    ELSE IF ~truthy(language) THEN "Programming language is required."
    ELSE ""

\* a validation that checks the pattern before the code snippet
validation_pattern_first(name, pattern_name, language, code_snippet) ==
    IF ~truthy(name) \/ ~truthy(strip(name)) THEN "Component name is required."
    ELSE IF ~truthy(pattern_name) THEN "Pattern type is required."
    ELSE IF ~truthy(code_snippet) \/ ~truthy(strip(code_snippet)) THEN "Code snippet is required."
    ELSE IF ~truthy(language) THEN "Programming language is required."
    ELSE ""

\* the validation section of add_component: the message of the first failing
\* check, "" when all checks pass
validation(name, pattern_name, language, code_snippet) ==
    IF ~truthy(name) \/ ~truthy(strip(name)) THEN "Component name is required."
    ELSE IF ~truthy(code_snippet) \/ ~truthy(strip(code_snippet)) THEN "Code snippet is required."
    ELSE IF ~truthy(pattern_name) THEN "Pattern type is required."
    ELSE IF ~truthy(language) THEN "Programming language is required."
    ELSE ""

\* an add_component that hands the description to the gateway untrimmed
add_component_call_untrimmed(name, pattern_name, pattern_category, language, description, code_snippet, author, fault, d) ==
    LET msg == validation(name, pattern_name, language, code_snippet)
        g   == insert_component(strip(name), pattern_name, pattern_category, language,
                                description, strip(code_snippet), strip(author),
                                fault, d)
    IN  IF msg # "" THEN Outcome(Returned(FALSE, msg), d, <<>>)
        ELSE IF g.exc # "none" THEN Outcome(Raised(g.exc), g.db, Did("INSERT", g))
        ELSE IF g.ret
             THEN Outcome(Returned(TRUE, "Component saved successfully!"), g.db, Did("INSERT", g))
             ELSE Outcome(Returned(FALSE, "Database error occurred."), g.db, Did("INSERT", g))

\* ComponentController.add_component
add_component_call(name, pattern_name, pattern_category, language, description, code_snippet, author, fault, d) ==
    LET msg == validation(name, pattern_name, language, code_snippet)
        g   == insert_component(strip(name), pattern_name, pattern_category, language,
                                strip(description), strip(code_snippet), strip(author),
                                fault, d)
    IN  IF msg # "" THEN Outcome(Returned(FALSE, msg), d, <<>>)
        ELSE IF g.exc # "none" THEN Outcome(Raised(g.exc), g.db, Did("INSERT", g))
        ELSE IF g.ret
             THEN Outcome(Returned(TRUE, "Component saved successfully!"), g.db, Did("INSERT", g))
             ELSE Outcome(Returned(FALSE, "Database error occurred."), g.db, Did("INSERT", g))

\* an argument of delete_component: a str or a native int
StrArg(text) == [isstr |-> TRUE, text |-> text, int |-> PyInt(FALSE, <<0>>)]
IntArg(n)    == [isstr |-> FALSE, text |-> <<>>, int |-> n]

\* a delete_component that swallows the ValueError and goes on with the text,
\* which equals no rowid
delete_component_call_unchecked(component_id, fault, d) ==
    LET parsed == int(component_id.text)
        id     == IF component_id.isstr THEN parsed.val ELSE component_id.int
        g      == IF component_id.isstr /\ ~parsed.ok
                  THEN execute_query("SELECT", << <<>>, <<>>, <<>> >>, FALSE, fault, d)
                  ELSE db_delete_component(id, fault, d)
    IN  IF g.exc # "none" THEN Outcome(Raised(g.exc), g.db, Did("DELETE", g))
        ELSE IF g.ret
             THEN Outcome(Returned(TRUE, "Component deleted successfully!"), g.db, Did("DELETE", g))
             ELSE Outcome(Returned(FALSE, "Error deleting component."), g.db, Did("DELETE", g))

\* ComponentController.delete_component
delete_component_call(component_id, fault, d) ==
    LET parsed == int(component_id.text)
        id     == IF component_id.isstr THEN parsed.val ELSE component_id.int
        g      == db_delete_component(id, fault, d)
    IN  IF component_id.isstr /\ ~parsed.ok
        THEN Outcome(Returned(FALSE, "Invalid component ID."), d, <<>>)
        ELSE IF g.exc # "none" THEN Outcome(Raised(g.exc), g.db, Did("DELETE", g))
        ELSE IF g.ret
             THEN Outcome(Returned(TRUE, "Component deleted successfully!"), g.db, Did("DELETE", g))
             ELSE Outcome(Returned(FALSE, "Error deleting component."), g.db, Did("DELETE", g))

\* ComponentController.__init__ on the existing database file:
\* DatabaseManager.__init__ calls create_table and drops what it returns
init_call(fault, d) ==
    LET g == create_table(fault, d)
    IN  Outcome(Constructed, g.db, Did("CREATE", g))

\* ComponentController.search_components
search_components_call(keyword, pattern_filter, language_filter, fault, d) ==
    LET g == db_search_components(keyword, pattern_filter, language_filter, fault, d)
    IN  Outcome(ReturnedRows(g.rows), g.db, Did("SELECT", g))

\* ComponentController.get_all_components
get_all_components_call(fault, d) ==
    LET g == db_get_all_components(fault, d)
    IN  Outcome(ReturnedRows(g.rows), g.db, Did("SELECT_ALL", g))

----------------------------------------------------------------------------
(* The inputs the calls are made with *)

NameTexts     == { <<>>, <<" ">>, <<"a">>, <<" ", "b", "\t">> }
CodeTexts     == { <<>>, <<"\t">>, <<"c", " ", "d", " ">> }
PatternTexts  == { <<>>, <<" ", "p">> }
LanguageTexts == { <<>>, <<"l">> }
\* pattern_category, description, author
FreeTexts     == { << <<"k">>, <<" ", "d">>, <<"u", " ">> >> }

IdInts  == { IntOf(n) : n \in 0..MaxAdds } \cup
           { PyInt(FALSE, Int64MaxMag), PyInt(FALSE, Int64MinMag),
             PyInt(TRUE, <<9,2,2,3,3,7,2,0,3,6,8,5,4,7,7,5,8,0,9>>) }
IdTexts == { <<>>, <<"a">>, <<"1">>, <<" ", "0", "2", "\t">>, <<"-", "1">>,
             <<"1", "_", "0">>, <<"1", "_">>, <<"1", " ", "2">>,
             <<"9","2","2","3","3","7","2","0","3","6","8","5","4","7","7","5","8","0","8">> }
IdArgs  == {IntArg(n) : n \in IdInts} \cup {StrArg(t) : t \in IdTexts}

Keywords        == { <<>>, <<"b">>, <<"B">>, <<"%">> }
PatternFilters  == { <<>>, <<" ", "p">> }
LanguageFilters == { <<>>, <<"l">> }

NoArgs == <<>>
NoId   == IntArg(PyInt(FALSE, <<0>>))

----------------------------------------------------------------------------
(* The state machine *)

db == [rows |-> store, seq |-> seq]

Init ==
    /\ store = {}
    /\ seq = 0
    /\ clock = 1
    /\ call = [op |-> "init", args |-> NoArgs, id |-> NoId]
    /\ result = Constructed
    /\ gateway = <<>>
    /\ before = db
    /\ issued = <<>>
    /\ given = <<>>
    /\ inserted = <<>>
    /\ previous = <<>>

\* a read: search_components or get_all_components
IsRead(c) == c.op \in {"search", "get_all"}

\* a read that gives no filter
Unfiltered(c) == c.op = "get_all" \/ (c.op = "search" /\ c.args = << <<>>, <<>>, <<>> >>)

\* c1 and c2 both read the whole table
SameRead(c1, c2) == Unfiltered(c1) /\ Unfiltered(c2)

\* the state after call c with outcome o; the history variables follow: the
\* rowid of a new row joins issued, given keeps for every row the arguments
\* of the call that created it, inserted keeps every row as it was when its
\* rowid entered the table, and previous keeps the outcome of the call
\* before when that and c both read the whole table
Finish(c, outcome) ==
    \E o \in {outcome} : \E new \in {o.db.rows \ store} :
        /\ call' = c
        /\ result' = o.result
        /\ gateway' = o.gateway
        /\ before' = db
        /\ store' = o.db.rows
        /\ seq' = o.db.seq
        /\ issued' = issued \o Ascending(Rowids(new))
        /\ given' = [id \in Rowids(o.db.rows) |->
                        IF id \in Rowids(new) THEN c.args ELSE given[id]]
        /\ inserted' = [id \in Rowids(o.db.rows) |->
                           IF id \in Rowids(store) THEN inserted[id]
                           ELSE CHOOSE r \in o.db.rows : r.component_id = id]
        /\ previous' = IF SameRead(call, c)
                   THEN << [op |-> call.op, ret |-> gateway[1].ret, rows |-> result.rows] >>
                   ELSE <<>>
        /\ UNCHANGED clock

\* the calls stop once MaxAdds rows were inserted
add_component(name, pattern_name, pattern_category, language, description, code_snippet, author, fault) ==
    /\ seq < MaxAdds
    /\ fault \in Faults
    \* a call the validation turns away never reaches the gateway and its faults
    /\ validation(name, pattern_name, language, code_snippet) # "" => fault = "none"
    /\ Finish([op |-> "add", id |-> NoId,
               args |-> <<name, pattern_name, pattern_category, language, description, code_snippet, author>>],
              add_component_call(name, pattern_name, pattern_category, language,
                                 description, code_snippet, author, fault, db))

delete_component(component_id, fault) ==
    /\ fault \in Faults
    \* a call that ends on the ValueError never reaches the gateway and its faults
    /\ (component_id.isstr /\ ~int(component_id.text).ok) => fault = "none"
    /\ Finish([op |-> "delete", id |-> component_id, args |-> NoArgs],
              delete_component_call(component_id, fault, db))

search_components(keyword, pattern_filter, language_filter, fault) ==
    /\ fault \in FaultsOf("SELECT")
    /\ Finish([op |-> "search", id |-> NoId, args |-> <<keyword, pattern_filter, language_filter>>],
              search_components_call(keyword, pattern_filter, language_filter, fault, db))

\* the application is started again on the database file
construct(fault) ==
    /\ fault \in Faults
    /\ Finish([op |-> "construct", id |-> NoId, args |-> NoArgs], init_call(fault, db))

get_all_components(fault) ==
    /\ fault \in FaultsOf("SELECT_ALL")
    /\ Finish([op |-> "get_all", id |-> NoId, args |-> NoArgs],
              get_all_components_call(fault, db))

\* midnight passes between two calls
Tick ==
    /\ clock < Len(Dates)
    /\ clock' = clock + 1
    /\ call' = [op |-> "tick", args |-> NoArgs, id |-> NoId]
    /\ before' = db
    /\ previous' = <<>>
    /\ UNCHANGED <<store, seq, result, gateway, issued, given, inserted>>

\* one step with the faults drawn from F.  A call meets a fault only in the
\* gateway: one that returns before reaching it is taken with fault "none"
NextOver(F) ==
    \/ \E component_id \in IdArgs, fault \in F : delete_component(component_id, fault)
    \/ \E name \in NameTexts, code_snippet \in CodeTexts, pattern_name \in PatternTexts,
          language \in LanguageTexts, free \in FreeTexts, fault \in F :
              add_component(name, pattern_name, free[1], language, free[2], code_snippet, free[3], fault)
    \/ \E keyword \in Keywords, pattern_filter \in PatternFilters,
          language_filter \in LanguageFilters, fault \in F :
              search_components(keyword, pattern_filter, language_filter, fault)
    \/ \E fault \in F : get_all_components(fault)
    \/ \E fault \in F : construct(fault)
    \/ Tick

Next == NextOver(Faults)

\* every call may meet an sqlite3.Error
Spec == Init /\ [][Next]_vars

NextNoFault == NextOver({"none"})

\* the store never fails: no call meets an sqlite3.Error
SpecNoFault == Init /\ [][NextNoFault]_vars

----------------------------------------------------------------------------
(* What the properties speak of.  These definitions restate the words of   *)
(* the properties on their own, without the operators of the model.        *)

\* empty, or whitespace only
IsBlank(t) == \A i \in 1..Len(t) : t[i] \in Whitespace

\* no leading and no trailing whitespace
IsClean(t) == t = <<>> \/ (t[1] \notin Whitespace /\ t[Len(t)] \notin Whitespace)

\* u is t with its leading and trailing whitespace removed
IsTrimOf(u, t) ==
    /\ IsClean(u)
    /\ \E i, j \in 0..Len(t) :
          /\ i + j <= Len(t)
          /\ \A k \in 1..i : t[k] \in Whitespace
          /\ \A k \in (Len(t) - j + 1)..Len(t) : t[k] \in Whitespace
          /\ u = SubSeq(t, i + 1, Len(t) - j)

\* the body of an integer text: digits, single underscores between them
IsDigitRun(b) ==
    /\ b # <<>>
    /\ \A k \in 1..Len(b) : b[k] \in Digits \cup {"_"}
    /\ b[1] \in Digits /\ b[Len(b)] \in Digits
    /\ \A k \in 1..(Len(b) - 1) : ~(b[k] = "_" /\ b[k + 1] = "_")

\* t is text representing an integer: optional sign and digits, whitespace
\* around them allowed
IsIntegerText(t) ==
    \E i, j \in 1..Len(t) :
        /\ i <= j
        /\ \A k \in 1..(i - 1) : t[k] \in Whitespace
        /\ \A k \in (j + 1)..Len(t) : t[k] \in Whitespace
        /\ IsDigitRun(IF t[i] \in {"+", "-"} THEN SubSeq(t, i + 1, j) ELSE SubSeq(t, i, j))

\* the integer an integer text represents
TextValue(t) ==
    LET chars  == SelectSeq(t, LAMBDA c : c \in Digits)
        ds     == [k \in 1..Len(chars) |-> DigitVal(chars[k])]
        lead   == {k \in 1..Len(ds) : ds[k] # 0}
        first  == IF lead = {} THEN Len(ds) ELSE CHOOSE k \in lead : \A m \in lead : k <= m
    IN  PyInt(\E k \in 1..Len(t) : t[k] = "-", SubSeq(ds, first, Len(ds)))

\* the current day as datetime.now().strftime("%Y-%m-%d") writes it
Today ==
    IF clock = 1 THEN <<"2", "0", "2", "6", "-", "1", "2", "-", "3", "1">>
                 ELSE <<"2", "0", "2", "7", "-", "0", "1", "-", "0", "1">>

\* the rows the last call added and removed
Added   == store \ before.rows
Removed == before.rows \ store
Unchanged == store = before.rows /\ seq = before.seq

Saved   == Returned(TRUE, "Component saved successfully!")
Deleted == Returned(TRUE, "Component deleted successfully!")

\* the last call was add_component with all required fields present
AddWithRequired ==
    /\ call.op = "add"
    /\ ~IsBlank(call.args[1]) /\ ~IsBlank(call.args[6])
    /\ call.args[2] # <<>> /\ call.args[4] # <<>>

\* the last call added exactly one row, above every row there was, stamped today
OneNewRow ==
    /\ Cardinality(Added) = 1
    /\ Removed = {}
    /\ \A r \in Added :
          /\ \A q \in before.rows : r.component_id > q.component_id
          /\ r.date_added = Today

\* row r holds the field values args after trimming
Holds(r, args) ==
    /\ IsTrimOf(r.name, args[1])
    /\ r.pattern_name = args[2]
    /\ r.pattern_category = args[3]
    /\ r.language = args[4]
    /\ IsTrimOf(r.description, args[5])
    /\ IsTrimOf(r.code_snippet, args[6])
    /\ IsTrimOf(r.author, args[7])

\* the last call was delete_component with an integer or an integer text
DeleteWithInteger ==
    /\ call.op = "delete"
    /\ call.id.isstr => IsIntegerText(call.id.text)

\* the integer the last delete_component was called with
DeleteId == IF call.id.isstr THEN TextValue(call.id.text) ELSE call.id.int

\* the last call removed the row with rowid n if there was one, and only that
RemovedOnly(n) ==
    /\ store = {r \in before.rows : ~SameRowid(r.component_id, n)}
    /\ seq = before.seq

----------------------------------------------------------------------------
(* Properties *)

\* C1 as stated: every add_component call with all required fields present
\* returns (True, "Component saved successfully!") and adds exactly one row,
\* whose component_id is above every row that existed and whose date_added is
\* the day of the call.
C1_Original == AddWithRequired => (result = Saved /\ OneNewRow)

\* C1 amended: an add_component call with all required fields present hands
\* one INSERT to the gateway; when the gateway returns True the call returns
\* (True, "Component saved successfully!") and exactly one row is added, with
\* a component_id above every row that existed and date_added the day of the
\* call; when the gateway returns False the call returns
\* (False, "Database error occurred.") and the store is unchanged.
C1_SavedOrDatabaseError ==
    AddWithRequired =>
        /\ Len(gateway) = 1
        /\ gateway[1].sql = "INSERT"
        /\ gateway[1].ret \in {"True", "False"}
        /\ gateway[1].ret = "True" => (result = Saved /\ OneNewRow)
        /\ gateway[1].ret = "False" =>
              (result = Returned(FALSE, "Database error occurred.") /\ Unchanged)

\* an add with all required fields succeeded on a later day than the rows
\* that were there
C1_Witness ==
    /\ AddWithRequired
    /\ result = Saved
    /\ before.rows # {}
    /\ clock = 2
    /\ \E q \in before.rows : q.date_added # Today

\* C2: an add_component call whose name is empty or whitespace only returns
\* (False, "Component name is required.") whatever the other arguments are,
\* and the store is as it was.
C2_BlankName ==
    (call.op = "add" /\ IsBlank(call.args[1])) =>
        (result = Returned(FALSE, "Component name is required.") /\ Unchanged)

\* a whitespace-only name, every other required field present, rows stored
C2_Witness ==
    /\ call.op = "add"
    /\ call.args[1] = <<" ">>
    /\ ~IsBlank(call.args[6]) /\ call.args[2] # <<>> /\ call.args[4] # <<>>
    /\ store # {}
    /\ result.msg = "Component name is required."

\* C3: an add_component call whose code_snippet is empty or whitespace only
\* returns a failure pair and the store is as it was.
C3_BlankCode ==
    (call.op = "add" /\ IsBlank(call.args[6])) =>
        (result.kind = "pair" /\ ~result.ok /\ result.msg # "" /\ Unchanged)

\* a whitespace-only code snippet, every other required field present
C3_Witness ==
    /\ call.op = "add"
    /\ call.args[6] = <<"\t">>
    /\ ~IsBlank(call.args[1]) /\ call.args[2] # <<>> /\ call.args[4] # <<>>
    /\ store # {}
    /\ result = Returned(FALSE, "Code snippet is required.")

\* the four checks in the stated order: whether each fails on the arguments of
\* the last add_component, and its message
CheckFails ==
    << IsBlank(call.args[1]), IsBlank(call.args[6]),
       call.args[2] = <<>>, call.args[4] = <<>> >>
CheckMessage ==
    << "Component name is required.", "Code snippet is required.",
       "Pattern type is required.", "Programming language is required." >>

\* C4: add_component checks name, code snippet, pattern name, language in this
\* order and stops at the first failing check: the one message returned is
\* that of the earliest failing check, and no INSERT reaches the gateway.
C4_FirstFailingCheck ==
    call.op = "add" =>
        \A k \in 1..4 :
            (CheckFails[k] /\ \A j \in 1..(k - 1) : ~CheckFails[j]) =>
                (result = Returned(FALSE, CheckMessage[k]) /\ gateway = <<>> /\ Unchanged)

\* the code snippet, the pattern and the language all fail; the name passes
C4_Witness ==
    /\ call.op = "add"
    /\ ~CheckFails[1] /\ CheckFails[2] /\ CheckFails[3] /\ CheckFails[4]
    /\ result = Returned(FALSE, "Code snippet is required.")

\* C5: after any sequence of add_component and delete_component calls from an
\* empty store, every stored row has a non-empty name and code_snippet without
\* leading or trailing whitespace and a non-empty pattern_name and language.
C5_StoredRowsValid ==
    \A r \in store :
        /\ r.name # <<>> /\ IsClean(r.name)
        /\ r.code_snippet # <<>> /\ IsClean(r.code_snippet)
        /\ r.pattern_name # <<>>
        /\ r.language # <<>>

\* after adds and a delete, a stored row was created from a name and a code
\* snippet that carried whitespace at their ends
C5_Witness ==
    /\ Len(issued) > Cardinality(store)
    /\ \E r \in store :
          /\ ~IsClean(given[r.component_id][1])
          /\ ~IsClean(given[r.component_id][6])

\* the rows the last read returned
Fetched == {result.rows[i] : i \in 1..Len(result.rows)}

\* C6: a row created by a successful add_component holds the given field
\* values after trimming (name, description, code_snippet, author trimmed;
\* pattern_name, pattern_category, language as given); get_all_components and
\* search_components return rows with exactly these values, get_all_components
\* returns every stored row, and a search whose filters are empty or equal the
\* row's name, pattern_name and language returns that row.
C6_RoundTrip ==
    /\ (call.op = "add" /\ result = Saved) =>
          \A r \in Added : Holds(r, call.args) /\ r.component_id \in 1..seq
    /\ call.op \in {"get_all", "search"} =>
          /\ \A r \in Fetched : r \in store /\ Holds(r, given[r.component_id])
          /\ Len(result.rows) = Cardinality(Fetched)
    /\ (call.op = "get_all" /\ gateway[1].ret = "True") => Fetched = store
    /\ (call.op = "search" /\ gateway[1].ret = "True") =>
          \A r \in store :
              ( /\ call.args[1] \in {<<>>, r.name}
                /\ call.args[2] \in {<<>>, r.pattern_name}
                /\ call.args[3] \in {<<>>, r.language} ) => r \in Fetched

\* a search by name, pattern and language fetched a row created from
\* untrimmed arguments
C6_Witness ==
    /\ call.op = "search"
    /\ call.args[1] # <<>> /\ call.args[2] # <<>> /\ call.args[3] # <<>>
    /\ \E r \in Fetched :
          /\ r.name = call.args[1]
          /\ given[r.component_id][1] # r.name
          /\ given[r.component_id][5] # r.description

\* C7: no two stored rows share a component_id, and a component_id once
\* assigned, also that of a deleted row and of the deleted row with the
\* largest id, is never assigned again.
C7_IdsNeverReused ==
    /\ \A r, q \in store : r.component_id = q.component_id => r = q
    /\ \A i, j \in 1..Len(issued) : i # j => issued[i] # issued[j]

\* a row was added after the row with the largest id had been deleted
C7_Witness ==
    /\ call.op = "add"
    /\ result = Saved
    /\ before.seq > 0
    /\ \A q \in before.rows : q.component_id < before.seq

\* C8 as stated: delete_component with an integer id, or text representing
\* one, returns (True, "Component deleted successfully!") whether or not a row
\* with that id exists; the row is gone afterwards, every other row is kept.
C8_Original == DeleteWithInteger => (result = Deleted /\ RemovedOnly(DeleteId))

\* C9: delete_component with a text that is no integer text returns
\* (False, "Invalid component ID.") without a gateway call and leaves the store
\* as it was; with an integer text it does what delete_component does with
\* the integer the text represents.
C9_TextId ==
    (call.op = "delete" /\ call.id.isstr) =>
        IF ~IsIntegerText(call.id.text)
        THEN result = Returned(FALSE, "Invalid component ID.") /\ gateway = <<>> /\ Unchanged
        ELSE \E fault \in Faults :
                LET o == delete_component_call(IntArg(TextValue(call.id.text)), fault, before)
                IN  result = o.result /\ gateway = o.gateway /\ store = o.db.rows /\ seq = o.db.seq

\* an integer text with whitespace and a leading zero removed a row
C9_Witness ==
    /\ call.op = "delete"
    /\ call.id.isstr
    /\ call.id.text = <<" ", "0", "2", "\t">>
    /\ result = Deleted
    /\ \E r \in Removed : r.component_id = 2

\* C10 as stated: for every integer and every integer text, of any magnitude,
\* delete_component returns a (success, message) pair and raises nothing.
C10_Original == DeleteWithInteger => result.kind = "pair"

\* text t contains text k as a substring, the case of ASCII letters aside (the
\* store's default collation for LIKE)
Contains(t, k) ==
    \E i \in 0..(Len(t) - Len(k)) :
        \A j \in 1..Len(k) : Lower(t[i + j]) = Lower(k[j])

\* row r satisfies every non-empty filter of (keyword, pattern, language)
Satisfies(r, filters) ==
    /\ filters[1] # <<>> => (Contains(r.name, filters[1]) \/ Contains(r.description, filters[1]))
    /\ filters[2] # <<>> => r.pattern_name = filters[2]
    /\ filters[3] # <<>> => r.language = filters[3]

\* C11 as stated: search_components returns only rows that satisfy every
\* non-empty filter (the keyword a substring of the name or the description,
\* the pattern_name and the language exactly the filter), so that combined
\* filters give the intersection, and it returns every stored row that
\* satisfies all the filters given.
C11_Original ==
    call.op = "search" => Fetched = {r \in store : Satisfies(r, call.args)}

C13_Original ==
    \A i \in 1..Len(gateway) :
        /\ gateway[i].ret \in {"True", "False"}
        /\ (gateway[i].ret = "False" /\ IsRead(call)) => result.rows = <<>>
        /\ (gateway[i].ret = "False" /\ ~IsRead(call)) => Unchanged

\* C14 as stated: every call of execute_query, on the success path and on the
\* failure path, has closed the connection it opened when it is left: no
\* connection is open after a gateway call.
C14_Original == \A i \in 1..Len(gateway) : gateway[i].conn # "open"

\* C15: no row is updated in place: over add_component, search_components,
\* get_all_components, delete_component and the construction of the gateway
\* on the existing store, every stored row has in every field, component_id
\* and date_added included, the value it was inserted with, and a row leaves
\* the store only by delete_component with its component_id.
C15_NeverUpdated ==
    /\ \A r \in store : inserted[r.component_id] = r
    /\ Removed # {} =>
          /\ DeleteWithInteger
          /\ \A r \in Removed : IntOf(r.component_id) = DeleteId

\* the gateway is constructed again, its CREATE TABLE runs, on a store that
\* holds a row of an earlier day and has lost a row to a delete
C15_Witness ==
    /\ call.op = "construct"
    /\ gateway[1].ret = "True"
    /\ Len(issued) > Cardinality(store)
    /\ \E r \in store : r.date_added # Today

\* C16: delete_component removes at most the one row whose component_id is
\* the id given: it adds no row, every row with another component_id that was
\* stored before the call is stored after it with every field as it was, and
\* a delete that failed in the gateway, (False, "Error deleting component."),
\* leaves the whole store as it was.
C16_DeleteFrame ==
    call.op = "delete" =>
        /\ Added = {}
        /\ Cardinality(Removed) <= 1
        /\ DeleteWithInteger =>
              \A r \in before.rows : IntOf(r.component_id) # DeleteId => r \in store
        /\ result = Returned(FALSE, "Error deleting component.") => Unchanged

\* a delete removed one of two rows
C16_Witness ==
    /\ call.op = "delete"
    /\ result = Deleted
    /\ Cardinality(before.rows) = 2
    /\ Cardinality(Removed) = 1
    /\ Cardinality(store) = 1

====
